---- MODULE Spec2Model ----
(***************************************************************************)
(* Model of src/ez_color_xs.py: the ColorPicker controller (its current    *)
(* colour and the eight derived labels), update_labels' conversions, and   *)
(* the EyeDropperDialog sampling session.                                  *)
(*                                                                         *)
(* Representation choices                                                  *)
(*  - A str is a sequence of one-character strings.                        *)
(*  - A Python float is the exact rational it approximates, kept as a      *)
(*    normalised pair [n, d]; "{:.1f}" yields the number of tenths.  A     *)
(*    value lying exactly between two tenths is decided in the program by  *)
(*    the binary rounding error; the colours enumerated below have no such *)
(*    value.  Division by a zero float raises ZeroDivisionError.           *)
(*  - QColor is [valid, r, g, b, a] in the Rgb colour spec; QRgb is        *)
(*    [a, r, g, b].  QColor.getHsv/getHsl follow Qt 6: 16-bit components,  *)
(*    hue in hundredths of a degree, USHRT_MAX for the hue of an           *)
(*    achromatic colour, which the getters report as -1.                   *)
(*  - None is the empty sequence, Some(x) is <<x>>.                        *)
(***************************************************************************)
EXTENDS Integers, Sequences, FiniteSets, TLC

VARIABLES webcolors, CSS3_NAMES_TO_HEX, color, labels, dlg, event, pc, exc

vars == <<webcolors, CSS3_NAMES_TO_HEX, color, labels, dlg, event, pc, exc>>

(***************************************************************************)
(* Bounds of the model.                                                    *)
(***************************************************************************)
MaxPaletteLen == 2
MaxFrameDim == 2
MaxLabelDim == 2
MaxDenseCoord == 2

None == <<>>
Some(x) == <<x>>

Min2(a, b) == IF a <= b THEN a ELSE b
Max2(a, b) == IF a >= b THEN a ELSE b

(***************************************************************************)
(* Python float arithmetic, as exact rationals.                            *)
(***************************************************************************)
RECURSIVE GCD(_, _)
GCD(a, b) == IF b = 0 THEN a ELSE GCD(b, a % b)

Abs(x) == IF x < 0 THEN -x ELSE x

Rat(n, d) ==
    LET s == IF d < 0 THEN -1 ELSE 1
        g == GCD(Abs(n), Abs(d))
    IN  [n |-> (s * n) \div g, d |-> (s * d) \div g]

RInt(i) == [n |-> i, d |-> 1]
RSub(p, q) == Rat(p.n * q.d - q.n * p.d, p.d * q.d)
RMul(p, q) == Rat(p.n * q.n, p.d * q.d)
\* x / 0.0 raises ZeroDivisionError: the marker stands for the raise.
ZeroDivision == [n |-> 0, d |-> 0]
RDiv(p, q) == IF q.n = 0 THEN ZeroDivision ELSE Rat(p.n * q.d, p.d * q.n)
RLt(p, q) == p.n * q.d < q.n * p.d
RLe(p, q) == p.n * q.d <= q.n * p.d
RMax2(p, q) == IF RLt(p, q) THEN q ELSE p
RMax3(p, q, s) == RMax2(p, RMax2(q, s))

\* format(x, ".1f"): the nearest number of tenths, an exact tie going to the
\* even one.
Fmt1(q) ==
    LET t  == 10 * q.n
        lo == t \div q.d
        r2 == 2 * (t - lo * q.d)
    IN  IF r2 < q.d THEN lo
        ELSE IF r2 > q.d THEN lo + 1
        ELSE IF lo % 2 = 0 THEN lo ELSE lo + 1

(***************************************************************************)
(* Strings of hexadecimal digits.                                          *)
(***************************************************************************)
UpperDigits == <<"0","1","2","3","4","5","6","7","8","9","A","B","C","D","E","F">>
LowerDigits == <<"0","1","2","3","4","5","6","7","8","9","a","b","c","d","e","f">>

\* f"{v:02X}"
Fmt02X(v) == <<UpperDigits[(v \div 16) + 1], UpperDigits[(v % 16) + 1]>>

\* f"#{r:02X}{g:02X}{b:02X}"
HexRgb(r, g, b) == <<"#">> \o Fmt02X(r) \o Fmt02X(g) \o Fmt02X(b)

\* int(ch, 16)
DigitValue(ch) ==
    CHOOSE v \in 0..15 : UpperDigits[v + 1] = ch \/ LowerDigits[v + 1] = ch

\* webcolors.hex_to_rgb("#rrggbb")
hex_to_rgb(hex_val) ==
    [r |-> 16 * DigitValue(hex_val[2]) + DigitValue(hex_val[3]),
     g |-> 16 * DigitValue(hex_val[4]) + DigitValue(hex_val[5]),
     b |-> 16 * DigitValue(hex_val[6]) + DigitValue(hex_val[7])]

\* webcolors.rgb_to_hex((r, g, b)): lower case
rgb_to_hex(r, g, b) ==
    <<"#", LowerDigits[(r \div 16) + 1], LowerDigits[(r % 16) + 1],
           LowerDigits[(g \div 16) + 1], LowerDigits[(g % 16) + 1],
           LowerDigits[(b \div 16) + 1], LowerDigits[(b % 16) + 1]>>

(***************************************************************************)
(* QColor and QRgb.                                                        *)
(***************************************************************************)
\* QColor(r, g, b, a)
QColor(r, g, b, a) == [valid |-> TRUE, r |-> r, g |-> g, b |-> b, a |-> a]

\* QColor(): the invalid colour QColorDialog.getColor returns when dismissed
InvalidQColor == [valid |-> FALSE, r |-> 0, g |-> 0, b |-> 0, a |-> 255]

\* QColor(QRgb): the alpha component of the QRgb is ignored
QColorFromRgb(pixel) == QColor(pixel.r, pixel.g, pixel.b, 255)

\* A component as QColor stores it, in 16 bits, read as a float in [0, 1].
Comp16(v) == Rat(v * 257, 65535)

\* qRound of a non-negative float
qRound(q) == (2 * q.n + q.d) \div (2 * q.d)

\* The hue computed by QColor::toHsv and QColor::toHsl, in hundredths of a
\* degree; the first of red, green, blue that equals the maximum selects the
\* sector.
HueOf(r, g, b, max, delta) ==
    LET raw == IF r = max THEN RDiv(RSub(g, b), delta)
               ELSE IF g = max THEN RSub(RDiv(RSub(b, r), delta), RInt(-2))
               ELSE RSub(RDiv(RSub(r, g), delta), RInt(-4))
        deg == RMul(raw, RInt(60))
        pos == IF RLt(deg, RInt(0)) THEN RSub(deg, RInt(-360)) ELSE deg
    IN  qRound(RMul(pos, RInt(100)))

\* QColor::toHsv: [hue, saturation, value] as stored (16 bits each)
toHsv(c) ==
    LET r == Comp16(c.r)
        g == Comp16(c.g)
        b == Comp16(c.b)
        max == RMax3(r, g, b)
        min == IF RLe(r, g) /\ RLe(r, b) THEN r ELSE IF RLe(g, b) THEN g ELSE b
        delta == RSub(max, min)
    IN  IF delta.n = 0
        THEN [hue |-> 65535, saturation |-> 0,
              value |-> qRound(RMul(max, RInt(65535)))]
        ELSE [hue |-> HueOf(r, g, b, max, delta),
              saturation |-> qRound(RMul(RDiv(delta, max), RInt(65535))),
              value |-> qRound(RMul(max, RInt(65535)))]

\* The hue a getter reports: -1 for the achromatic marker
ReportedHue(hue) == IF hue = 65535 THEN -1 ELSE hue \div 100

\* QColor.getHsv(): (h, s, v), the alpha dropped by the caller
getHsv(c) ==
    LET t == toHsv(c)
    IN  [h |-> ReportedHue(t.hue), s |-> t.saturation \div 256, v |-> t.value \div 256]

\* QColor::toHsl
toHsl(c) ==
    LET r == Comp16(c.r)
        g == Comp16(c.g)
        b == Comp16(c.b)
        max == RMax3(r, g, b)
        min == IF RLe(r, g) /\ RLe(r, b) THEN r ELSE IF RLe(g, b) THEN g ELSE b
        delta == RSub(max, min)
        delta2 == RSub(max, RSub(RInt(0), min))
        lightness == RMul(Rat(1, 2), delta2)
    IN  IF delta.n = 0
        THEN [hue |-> 65535, saturation |-> 0,
              lightness |-> qRound(RMul(lightness, RInt(65535)))]
        ELSE [hue |-> HueOf(r, g, b, max, delta),
              saturation |->
                  IF RLt(lightness, Rat(1, 2))
                  THEN qRound(RMul(RDiv(delta, delta2), RInt(65535)))
                  ELSE qRound(RMul(RDiv(delta, RSub(RInt(2), delta2)), RInt(65535))),
              lightness |-> qRound(RMul(lightness, RInt(65535)))]

\* QColor.getHsl(): (h, s, l)
getHsl(c) ==
    LET t == toHsl(c)
    IN  [h |-> ReportedHue(t.hue), s |-> t.saturation \div 256, l |-> t.lightness \div 256]

\* x / 2.55, formatted with one decimal
Pct255(x) == Fmt1(RDiv(RInt(x), Rat(255, 100)))

(***************************************************************************)
(* update_labels: CMYK, decimal and colour name.                           *)
(***************************************************************************)
\* "if k < 1"
KBelowOneNever(k) == TRUE
KBelowOne(k) == RLt(k, RInt(1))

\* (1 - x_norm - k) / (1 - k)
CmykChannel(x_norm, k) == RDiv(RSub(RSub(RInt(1), x_norm), k), RSub(RInt(1), k))

\* The CMYK block: c, m, y, k as floats, or the raise of a division by zero.
Cmyk(r, g, b) ==
    LET r_norm == Rat(r, 255)
        g_norm == Rat(g, 255)
        b_norm == Rat(b, 255)
        k == RSub(RInt(1), RMax3(r_norm, g_norm, b_norm))
        c == IF KBelowOne(k) THEN CmykChannel(r_norm, k) ELSE RInt(0)
        m == IF KBelowOne(k) THEN CmykChannel(g_norm, k) ELSE RInt(0)
        y == IF KBelowOne(k) THEN CmykChannel(b_norm, k) ELSE RInt(0)
    IN  IF ZeroDivision \in {c, m, y}
        THEN [raised |-> "ZeroDivisionError", c |-> RInt(0), m |-> RInt(0),
              y |-> RInt(0), k |-> k]
        ELSE [raised |-> "", c |-> c, m |-> m, y |-> y, k |-> k]

\* x << n
Shl(x, n) == x * (2 ^ n)

\* decimal_val = (r << 16) + (g << 8) + b
DecimalValWrongShift(r, g, b) == Shl(r, 16) + Shl(g, 16) + b
DecimalVal(r, g, b) == Shl(r, 16) + Shl(g, 8) + b

\* The indices of the palette entries whose hex value is h
EntriesWithHex(palette, h) == {i \in 1..Len(palette) : palette[i].hex_val = h}

SetMax(S) == CHOOSE x \in S : \A y \in S : y <= x

\* min(min_colours.keys())
MaxKey(keys) == CHOOSE x \in keys : \A y \in keys : y <= x
MinKey(keys) == CHOOSE x \in keys : \A y \in keys : x <= y

\* webcolors.rgb_to_name((r, g, b)): the name the reversed palette holds for
\* the colour's hex value (of two names with one value the later one), or the
\* raise of ValueError when no entry has that value.
rgb_to_name(palette, r, g, b) ==
    LET hits == EntriesWithHex(palette, rgb_to_hex(r, g, b))
    IN  IF hits = {} THEN [raised |-> "ValueError", name |-> ""]
        ELSE [raised |-> "", name |-> palette[SetMax(hits)].key]

\* dist = (r_c - r)**2 + (g_c - g)**2 + (b_c - b)**2
Dist(hex_val, r, g, b) ==
    LET c == hex_to_rgb(hex_val)
    IN  (c.r - r) * (c.r - r) + (c.g - g) * (c.g - g) + (c.b - b) * (c.b - b)

\* min_colours[dist] = key
DictSetKeepFirst(d, k, v) ==
    [x \in DOMAIN d \cup {k} |-> IF x \in DOMAIN d THEN d[x] ELSE v]
DictSet(d, k, v) == [x \in DOMAIN d \cup {k} |-> IF x = k THEN v ELSE d[x]]

\* The loop over CSS3_NAMES_TO_HEX.items(), from entry i on
RECURSIVE FillMinColours(_, _, _, _, _, _)
FillMinColours(palette, i, r, g, b, min_colours) ==
    IF i > Len(palette) THEN min_colours
    ELSE FillMinColours(palette, i + 1, r, g, b,
             DictSet(min_colours, Dist(palette[i].hex_val, r, g, b), palette[i].key))

\* The except-branch: the name stored under the least distance; min() of no
\* keys raises ValueError.
ClosestName(palette, r, g, b) ==
    LET min_colours == FillMinColours(palette, 1, r, g, b, <<>>)
    IN  IF DOMAIN min_colours = {} THEN [raised |-> "ValueError", name |-> ""]
        ELSE [raised |-> "", name |-> min_colours[MinKey(DOMAIN min_colours)]]

\* "if webcolors:"
HasWebcolorsIgnored(wc) == TRUE
HasWebcolors(wc) == wc

\* The "Color Name" block
ColorName(wc, palette, r, g, b) ==
    IF HasWebcolors(wc)
    THEN LET exact == rgb_to_name(palette, r, g, b)
         IN  IF exact.raised = "" THEN exact ELSE ClosestName(palette, r, g, b)
    ELSE [raised |-> "", name |-> "Unknown"]

\* The texts update_labels sets on the preview and the eight labels from the
\* values it has computed, or the exception raised before any text is set.
LabelTexts(r, g, b, hsv, hsl, cmyk, name, hex_rgb) ==
    IF cmyk.raised # "" THEN [raised |-> cmyk.raised]
    ELSE IF name.raised # "" THEN [raised |-> name.raised]
    ELSE [raised |-> "",
          labels |->
            [preview |-> hex_rgb,
             hex_label |-> hex_rgb,
             rgb_label |-> <<r, g, b>>,
             hsl_label |-> <<hsl.h, Pct255(hsl.s), Pct255(hsl.l)>>,
             hsv_label |-> <<hsv.h, Pct255(hsv.s), Pct255(hsv.v)>>,
             cmyk_label |-> <<Fmt1(RMul(cmyk.c, RInt(100))),
                              Fmt1(RMul(cmyk.m, RInt(100))),
                              Fmt1(RMul(cmyk.y, RInt(100))),
                              Fmt1(RMul(cmyk.k, RInt(100)))>>,
             hsb_label |-> <<hsv.h, Pct255(hsv.s), Pct255(hsv.v)>>,
             decimal_label |-> DecimalVal(r, g, b),
             name_label |-> name.name]]

\* update_labels with self.color = c
update_labels(c, wc, palette) ==
    LabelTexts(c.r, c.g, c.b, getHsv(c), getHsl(c), Cmyk(c.r, c.g, c.b),
               ColorName(wc, palette, c.r, c.g, c.b), HexRgb(c.r, c.g, c.b))

\* The outcome u of update_labels in a handler: an exception leaves the
\* labels as they were and is reported by the event loop.
Updated(u) ==
    /\ labels' = IF u.raised = "" THEN u.labels ELSE labels
    /\ exc' = u.raised

\* A call of self.update_labels() with self.color = c
CallUpdateLabels(c) == Updated(update_labels(c, webcolors, CSS3_NAMES_TO_HEX))

(***************************************************************************)
(* The palette: names with their hex values, in the mapping's order.       *)
(***************************************************************************)
Css3Sample ==
    << [key |-> "aqua",  hex_val |-> <<"#","0","0","f","f","f","f">>],
       [key |-> "black", hex_val |-> <<"#","0","0","0","0","0","0">>],
       [key |-> "blue",  hex_val |-> <<"#","0","0","0","0","f","f">>],
       [key |-> "cyan",  hex_val |-> <<"#","0","0","f","f","f","f">>],
       [key |-> "red",   hex_val |-> <<"#","f","f","0","0","0","0">>],
       [key |-> "white", hex_val |-> <<"#","f","f","f","f","f","f">>] >>

Injective(seq) == \A i, j \in 1..Len(seq) : seq[i] = seq[j] => i = j

\* The mappings of at most MaxPaletteLen of these names, in any order, and
\* the whole sample.
Palettes ==
    {Css3Sample} \cup
    UNION {{[i \in 1..n |-> Css3Sample[ix[i]]] :
               ix \in {f \in [1..n -> 1..Len(Css3Sample)] : Injective(f)}} :
           n \in 1..MaxPaletteLen}

(***************************************************************************)
(* Colours and captured frames.                                            *)
(***************************************************************************)
White == QColor(255, 255, 255, 255)

ChannelValues == {0, 5, 127, 128, 250, 255}
AlphaValues == {128, 255}

\* The colours QColorDialog can return to update_labels
ConvColors ==
    {QColor(r, g, b, a) : r \in ChannelValues, g \in ChannelValues,
                          b \in ChannelValues, a \in AlphaValues}

\* The colours picked in the dialog in the controller's specification
DialogColors == {QColor(0, 0, 0, 255), QColor(0, 250, 250, 128)}

qRgb(r, g, b) == [a |-> 255, r |-> r, g |-> g, b |-> b]

ScreenColors == <<qRgb(128, 128, 128), qRgb(0, 0, 255), qRgb(5, 0, 5)>>

\* A screen whose pixels cycle through ScreenColors, starting at colour k
PatternFrame(w, h, k) ==
    [width |-> w, height |-> h,
     pix |-> [p \in (0..(w - 1)) \X (0..(h - 1)) |->
                 ScreenColors[((p[1] + 2 * p[2] + k) % Len(ScreenColors)) + 1]]]

\* A screen whose pixel at (x, y) has red x and green y
CoordFrame(w, h) ==
    [width |-> w, height |-> h,
     pix |-> [p \in (0..(w - 1)) \X (0..(h - 1)) |-> qRgb(p[1] % 256, p[2] % 256, 0)]]

FrameDims == 1..MaxFrameDim
LabelDims == 1..MaxLabelDim
Frames ==
    {PatternFrame(w, h, k) : w \in FrameDims, h \in FrameDims, k \in 0..1}

\* QImage.pixel(x, y): outside the image Qt warns and returns 12345
pixel(image, x, y) ==
    IF x \in 0..(image.width - 1) /\ y \in 0..(image.height - 1)
    THEN image.pix[<<x, y>>]
    ELSE [a |-> 0, r |-> 0, g |-> 48, b |-> 57]

\* The positions a press is tried at, for a label n wide (or high): before
\* the origin, the first few, the last one, the edge and beyond it.
PressCoords(n) == ((-1)..Min2(n, MaxDenseCoord)) \cup {n - 1, n, n + 1}

Buttons == {"LeftButton", "RightButton"}

(***************************************************************************)
(* EyeDropperDialog.                                                       *)
(***************************************************************************)
\* EyeDropperDialog.__init__: the screen is grabbed once, shown in a label
\* scaled to the full screen; no colour is selected; the dialog is shown.
EyeDropperDialog(frame, label_width, label_height) ==
    [image |-> frame, label_width |-> label_width, label_height |-> label_height,
     selected_color |-> None, visible |-> TRUE, result |-> 0]

\* x = pos.x() * self.image.width() // self.label.width()
ScaleToImage(p, image_size, label_size) == (p * image_size) \div label_size

\* max(0, min(x, size - 1))
ClampNoUpperBound(x, size) == Max2(0, x)
Clamp(x, size) == Max2(0, Min2(x, size - 1))

\* The image coordinates mousePressEvent reads for a press at (px, py)
SourceX(d, px) == Clamp(ScaleToImage(px, d.image.width, d.label_width), d.image.width)
SourceY(d, py) == Clamp(ScaleToImage(py, d.image.height, d.label_height), d.image.height)

\* self.accept(): the result is Accepted, the dialog is hidden and exec() ends
acceptKeepsOpen(d) == [d EXCEPT !.result = 1]
accept(d) == [d EXCEPT !.result = 1, !.visible = FALSE]

\* QDialog.reject(), on Escape or on closing the window
reject(d) == [d EXCEPT !.result = 0, !.visible = FALSE]

\* "if event.button() == Qt.LeftButton"
IsSamplingButtonAny(button) == TRUE
IsSamplingButton(button) == button = "LeftButton"

\* EyeDropperDialog.mousePressEvent
mousePressEvent(button, px, py) ==
    /\ pc = "exec"
    /\ dlg # None
    /\ dlg[1].visible
    /\ LET d == dlg[1]
           picked == IF IsSamplingButton(button)
                     THEN [d EXCEPT !.selected_color =
                              Some(QColorFromRgb(pixel(d.image, SourceX(d, px), SourceY(d, py))))]
                     ELSE d
       IN  dlg' = Some(accept(picked))
    /\ event' = Some([kind |-> "MouseButtonPress", button |-> button, x |-> px, y |-> py])
    /\ UNCHANGED <<webcolors, CSS3_NAMES_TO_HEX, color, labels, pc, exc>>

\* The dialog is dismissed without a press
DismissDialog ==
    /\ pc = "exec"
    /\ dlg # None
    /\ dlg[1].visible
    /\ dlg' = Some(reject(dlg[1]))
    /\ event' = Some([kind |-> "KeyPress", button |-> "NoButton", x |-> 0, y |-> 0])
    /\ UNCHANGED <<webcolors, CSS3_NAMES_TO_HEX, color, labels, pc, exc>>

(***************************************************************************)
(* ColorPicker.                                                            *)
(***************************************************************************)
\* open_color_dialog, QColorDialog.getColor having returned col
open_color_dialogNoRefresh(col) ==
    /\ pc = "main"
    /\ IF col.valid
       THEN /\ color' = col
            /\ UNCHANGED <<labels, exc>>
       ELSE UNCHANGED <<color, labels, exc>>
    /\ UNCHANGED <<webcolors, CSS3_NAMES_TO_HEX, dlg, event, pc>>
open_color_dialog(col) ==
    /\ pc = "main"
    /\ IF col.valid
       THEN /\ color' = col
            /\ CallUpdateLabels(col)
       ELSE UNCHANGED <<color, labels, exc>>
    /\ UNCHANGED <<webcolors, CSS3_NAMES_TO_HEX, dlg, event, pc>>

\* open_eyedropper up to dlg.exec(): the dialog is built over the screen's
\* contents and its event loop entered (the picker is hidden meanwhile)
open_eyedropper(frame, label_width, label_height) ==
    /\ pc = "main"
    /\ dlg' = Some(EyeDropperDialog(frame, label_width, label_height))
    /\ event' = None
    /\ pc' = "exec"
    /\ UNCHANGED <<webcolors, CSS3_NAMES_TO_HEX, color, labels, exc>>

\* "if dlg.exec(): if dlg.selected_color:"
TakesColor(d) == d.result # 0 /\ d.selected_color # None

\* open_eyedropper from the return of dlg.exec() on
exec_returned ==
    /\ pc = "exec"
    /\ dlg # None
    /\ ~dlg[1].visible
    /\ IF TakesColor(dlg[1])
       THEN /\ color' = dlg[1].selected_color[1]
            /\ CallUpdateLabels(dlg[1].selected_color[1])
       ELSE UNCHANGED <<color, labels, exc>>
    /\ dlg' = None
    /\ event' = None
    /\ pc' = "main"
    /\ UNCHANGED <<webcolors, CSS3_NAMES_TO_HEX>>

\* A call of update_labels with the colour just assigned
update_labels_call ==
    /\ pc = "update_labels"
    /\ CallUpdateLabels(color)
    /\ pc' = "main"
    /\ UNCHANGED <<webcolors, CSS3_NAMES_TO_HEX, color, dlg, event>>

(***************************************************************************)
(* Specifications.                                                         *)
(***************************************************************************)
\* The import of webcolors: the module and its palette, or neither
ImportOutcomes(palettes) ==
    {[webcolors |-> TRUE, palette |-> p] : p \in palettes}
        \cup {[webcolors |-> FALSE, palette |-> <<>>]}

\* The texts before ColorPicker.__init__ calls update_labels: the preview
\* shows self.color.name().upper(), the labels are empty.
BlankLabels ==
    [preview |-> HexRgb(White.r, White.g, White.b), hex_label |-> <<>>,
     rgb_label |-> <<>>, hsl_label |-> <<>>, hsv_label |-> <<>>, cmyk_label |-> <<>>,
     hsb_label |-> <<>>, decimal_label |-> <<>>, name_label |-> <<>>]

\* ColorPicker.__init__ given the outcome u of its call of update_labels: an
\* exception ends the program before the window is shown.
Constructed(u) ==
    [labels |-> IF u.raised = "" THEN u.labels ELSE BlankLabels,
     exc |-> u.raised,
     pc |-> IF u.raised = "" THEN "main" ELSE "crashed"]

\* ColorPicker.__init__
ColorPickerInit(wc, palette) == Constructed(update_labels(White, wc, palette))

\* The controller after construction, over the whole sample palette
Init ==
    /\ \E o \in ImportOutcomes({Css3Sample}) :
          /\ webcolors = o.webcolors
          /\ CSS3_NAMES_TO_HEX = o.palette
          /\ labels = ColorPickerInit(o.webcolors, o.palette).labels
          /\ exc = ColorPickerInit(o.webcolors, o.palette).exc
          /\ pc = ColorPickerInit(o.webcolors, o.palette).pc
    /\ color = White
    /\ dlg = None
    /\ event = None

Next ==
    \/ \E col \in DialogColors : open_color_dialog(col)
    \/ open_color_dialog(InvalidQColor)
    \/ \E f \in Frames, w \in LabelDims, h \in LabelDims : open_eyedropper(f, w, h)
    \/ /\ dlg # None
       /\ \E b \in Buttons : \E px \in PressCoords(dlg[1].label_width),
                                py \in PressCoords(dlg[1].label_height) :
             mousePressEvent(b, px, py)
    \/ DismissDialog
    \/ exec_returned

Spec == Init /\ [][Next]_vars

\* update_labels applied to each colour and palette: the picker right after
\* open_color_dialog has assigned the colour the dialog returned.
InitConv ==
    /\ \E o \in ImportOutcomes(Palettes) :
          /\ webcolors = o.webcolors
          /\ CSS3_NAMES_TO_HEX = o.palette
          /\ labels = ColorPickerInit(o.webcolors, o.palette).labels
          /\ exc = ColorPickerInit(o.webcolors, o.palette).exc
          /\ pc = IF ColorPickerInit(o.webcolors, o.palette).pc = "main"
                  THEN "update_labels" ELSE "crashed"
    /\ color \in ConvColors
    /\ dlg = None
    /\ event = None

NextConv == update_labels_call

SpecConv == InitConv /\ [][NextConv]_vars

\* The same over the sample palette alone, in the order webcolors lists it
InitCss3 ==
    /\ \E o \in ImportOutcomes({Css3Sample}) :
          /\ webcolors = o.webcolors
          /\ CSS3_NAMES_TO_HEX = o.palette
          /\ labels = ColorPickerInit(o.webcolors, o.palette).labels
          /\ exc = ColorPickerInit(o.webcolors, o.palette).exc
          /\ pc = IF ColorPickerInit(o.webcolors, o.palette).pc = "main"
                  THEN "update_labels" ELSE "crashed"
    /\ color \in ConvColors
    /\ dlg = None
    /\ event = None

SpecCss3 == InitCss3 /\ [][NextConv]_vars

\* The eyedropper's overlay open over a screen that tells where it was read
MapFrameDims == FrameDims \cup {100}
MapLabelDims == LabelDims \cup {200}

InitMap ==
    /\ webcolors = FALSE
    /\ CSS3_NAMES_TO_HEX = <<>>
    /\ labels = ColorPickerInit(FALSE, <<>>).labels
    /\ color = White
    /\ \E w \in MapFrameDims, h \in MapFrameDims, lw \in MapLabelDims, lh \in MapLabelDims :
          dlg = Some(EyeDropperDialog(CoordFrame(w, h), lw, lh))
    /\ event = None
    /\ pc = "exec"
    /\ exc = ""

NextMap ==
    \/ /\ dlg # None
       /\ \E b \in Buttons : \E px \in PressCoords(dlg[1].label_width),
                                py \in PressCoords(dlg[1].label_height) :
             mousePressEvent(b, px, py)
    \/ DismissDialog

SpecMap == InitMap /\ [][NextMap]_vars

(***************************************************************************)
(* The sampler's state, read off the dialog.                               *)
(***************************************************************************)
SamplerState(d) ==
    IF d = None THEN "Idle"
    ELSE IF d[1].selected_color # None THEN "Resolved"
    ELSE IF d[1].visible THEN "Captured"
    ELSE "Cancelled"

(***************************************************************************)
(* Properties.                                                             *)
(***************************************************************************)
\* The last event was a press of the left button
LeftPress ==
    /\ event # None
    /\ event[1].kind = "MouseButtonPress"
    /\ event[1].button = "LeftButton"

\* x is floor(p * size / shown) clamped to [0, size - 1]
ExpectedCoord(p, size, shown, x) ==
    /\ x \in 0..(size - 1)
    /\ IF p * size < 0 THEN x = 0
       ELSE IF p * size >= size * shown THEN x = size - 1
       ELSE x * shown <= p * size /\ p * size < (x + 1) * shown

\* The dialog shows a w x h frame in a lw x lh label and was pressed at (px, py)
PressedAt(w, h, lw, lh, px, py) ==
    /\ dlg # None
    /\ LeftPress
    /\ dlg[1].image.width = w /\ dlg[1].image.height = h
    /\ dlg[1].label_width = lw /\ dlg[1].label_height = lh
    /\ event[1].x = px /\ event[1].y = py

\* C1: after a left press at (px, py) on a w x h frame shown dw x dh, the
\* colour selected is the one of the pixel at x = clamp(floor(px*w/dw), 0, w-1),
\* y = clamp(floor(py*h/dh), 0, h-1), inside the frame (the frame's pixel at
\* (x, y) has red x, green y, blue 0); a 100x100 frame shown 200x200 maps a
\* press at (199,199) to (99,99) and one at (0,0) to (0,0).
C1_PointerClamped ==
    (dlg # None /\ LeftPress) =>
        /\ dlg[1].selected_color # None
        /\ dlg[1].selected_color[1].valid
        /\ ExpectedCoord(event[1].x, dlg[1].image.width, dlg[1].label_width,
                         dlg[1].selected_color[1].r)
        /\ ExpectedCoord(event[1].y, dlg[1].image.height, dlg[1].label_height,
                         dlg[1].selected_color[1].g)
        /\ dlg[1].selected_color[1].b = 0
        /\ PressedAt(100, 100, 200, 200, 199, 199) =>
               dlg[1].selected_color = Some(QColor(99, 99, 0, 255))
        /\ PressedAt(100, 100, 200, 200, 0, 0) =>
               dlg[1].selected_color = Some(QColor(0, 0, 0, 255))

C1_Witness ==
    /\ PressedAt(100, 100, 200, 200, 199, 199)
    /\ dlg[1].selected_color = Some(QColor(99, 99, 0, 255))

\* The colours of the pixels of a frame, as QColor reads them
FrameColors(image) ==
    {[valid |-> TRUE, r |-> image.pix[p].r, g |-> image.pix[p].g,
      b |-> image.pix[p].b, a |-> 255] : p \in DOMAIN image.pix}

\* C2: the sampler becomes Resolved only from Captured, and Captured only
\* from Idle; the frame of a session never changes once captured; the resolved
\* colour is a pixel of that frame; once Resolved, nothing changes the dialog
\* until the session ends, and it ends by handing the resolved colour to the
\* picker.
C2_ResolvedOnlyAfterCaptured ==
    /\ [][SamplerState(dlg') = "Resolved" =>
             SamplerState(dlg) \in {"Captured", "Resolved"}]_vars
    /\ [][SamplerState(dlg') = "Captured" =>
             SamplerState(dlg) \in {"Idle", "Captured"}]_vars
    /\ [][(dlg # None /\ dlg' # None) => dlg'[1].image = dlg[1].image]_vars
    /\ [](SamplerState(dlg) = "Resolved" =>
             dlg[1].selected_color[1] \in FrameColors(dlg[1].image))
    /\ [][SamplerState(dlg) = "Resolved" =>
             \/ dlg' = dlg
             \/ dlg' = None /\ color' = dlg[1].selected_color[1]]_vars

C2_Witness ==
    /\ SamplerState(dlg) = "Resolved"
    /\ ~dlg[1].visible
    /\ dlg[1].selected_color[1] # color

\* The RGB of the sample's names, as CSS3 defines them
NamedRgb ==
    [n \in {"aqua", "black", "blue", "cyan", "red", "white"} |->
        CASE n = "aqua" -> <<0, 255, 255>>
          [] n = "black" -> <<0, 0, 0>>
          [] n = "blue" -> <<0, 0, 255>>
          [] n = "cyan" -> <<0, 255, 255>>
          [] n = "red" -> <<255, 0, 0>>
          [] n = "white" -> <<255, 255, 255>>]

\* The squared distance of the current colour to palette entry i
SqDist(i) ==
    LET t == NamedRgb[CSS3_NAMES_TO_HEX[i].key]
    IN  (t[1] - color.r) * (t[1] - color.r) + (t[2] - color.g) * (t[2] - color.g)
            + (t[3] - color.b) * (t[3] - color.b)

PaletteIndices == 1..Len(CSS3_NAMES_TO_HEX)
ExactEntries == {i \in PaletteIndices : SqDist(i) = 0}
NearestEntries == {i \in PaletteIndices : \A j \in PaletteIndices : SqDist(i) <= SqDist(j)}
FirstOf(S) == CHOOSE i \in S : \A j \in S : i <= j
LastOf(S) == CHOOSE i \in S : \A j \in S : j <= i

\* update_labels has run on a colour no palette entry equals, and several
\* entries are nearest to it
TiedWithoutExact ==
    /\ pc = "main"
    /\ webcolors
    /\ ExactEntries = {}
    /\ Cardinality(NearestEntries) > 1

\* C3, as stated: of several entries at the least distance from a colour with
\* no exact match, the name shown is the first in the palette's order.
C3_FirstTieWins ==
    TiedWithoutExact =>
        labels.name_label = CSS3_NAMES_TO_HEX[FirstOf(NearestEntries)].key

\* C3, amended: of several entries at the least distance from a colour with
\* no exact match, the name shown is the last in the palette's order.
C3_LastTieWins ==
    TiedWithoutExact =>
        /\ exc = ""
        /\ labels.name_label = CSS3_NAMES_TO_HEX[LastOf(NearestEntries)].key

C3_Witness ==
    /\ TiedWithoutExact
    /\ \E i, j \in NearestEntries :
          NamedRgb[CSS3_NAMES_TO_HEX[i].key] # NamedRgb[CSS3_NAMES_TO_HEX[j].key]
    /\ labels.name_label = CSS3_NAMES_TO_HEX[LastOf(NearestEntries)].key

\* C4: without webcolors, or with an empty palette, the name shown is
\* "Unknown" for every colour and no exception leaves update_labels.
C4_UnknownWithoutPalette ==
    (~webcolors \/ CSS3_NAMES_TO_HEX = <<>>) =>
        /\ exc = ""
        /\ labels.name_label = "Unknown"

C4_Witness ==
    /\ pc = "main"
    /\ ~webcolors
    /\ CSS3_NAMES_TO_HEX = <<>>
    /\ color = QColor(250, 5, 5, 255)
    /\ labels.name_label = "Unknown"

\* C5: with a non-empty palette the name shown is that of an entry equal to
\* the colour when there is one, and otherwise of an entry at the least
\* squared distance; the palette red, blue gives "red" for (250, 5, 5).
C5_NearestNamedColor ==
    (pc = "main" /\ webcolors) =>
        /\ exc = ""
        /\ IF ExactEntries # {}
           THEN \E i \in ExactEntries : labels.name_label = CSS3_NAMES_TO_HEX[i].key
           ELSE \E i \in NearestEntries : labels.name_label = CSS3_NAMES_TO_HEX[i].key
        /\ ( /\ Len(CSS3_NAMES_TO_HEX) = 2
             /\ CSS3_NAMES_TO_HEX[1].key = "red"
             /\ CSS3_NAMES_TO_HEX[2].key = "blue"
             /\ <<color.r, color.g, color.b>> = <<250, 5, 5>> )
           => labels.name_label = "red"

C5_Witness ==
    /\ pc = "main"
    /\ webcolors
    /\ Len(CSS3_NAMES_TO_HEX) = 2
    /\ CSS3_NAMES_TO_HEX[1].key = "red"
    /\ CSS3_NAMES_TO_HEX[2].key = "blue"
    /\ <<color.r, color.g, color.b>> = <<250, 5, 5>>
    /\ labels.name_label = "red"

\* C6: whenever the picker waits for an event, in its own window or in the
\* eyedropper's, every text shown is the one update_labels computes from the
\* current colour, and no exception was raised.
C6_LabelsNeverStale ==
    pc \in {"main", "exec"} =>
        /\ exc = ""
        /\ update_labels(color, webcolors, CSS3_NAMES_TO_HEX).raised = ""
        /\ labels = update_labels(color, webcolors, CSS3_NAMES_TO_HEX).labels

C6_Witness ==
    /\ pc = "main"
    /\ color = QColor(5, 0, 5, 255)
    /\ labels.rgb_label = <<5, 0, 5>>

\* C7: a session ended by a dismissal or by a press of another button than
\* the left one has selected no colour (the sampler is Cancelled), and the
\* step that ends it leaves the picker's colour and texts as they were.
C7_CancelledChangesNothing ==
    [][(pc = "exec" /\ dlg # None /\ ~dlg[1].visible /\ ~LeftPress) =>
          /\ SamplerState(dlg) = "Cancelled"
          /\ color' = color
          /\ labels' = labels]_vars

C7_Witness ==
    /\ pc = "exec"
    /\ dlg # None
    /\ ~dlg[1].visible
    /\ event # None
    /\ event[1].button = "RightButton"
    /\ dlg[1].selected_color = None
    /\ color # White

\* C8, as stated: for a gray colour the HSV and HSL saturations shown are 0
\* and the HSV and HSL hues shown are 0.
C8_GrayHueZero ==
    (pc = "main" /\ color.r = color.g /\ color.g = color.b) =>
        /\ labels.hsv_label[2] = 0
        /\ labels.hsl_label[2] = 0
        /\ labels.hsv_label[1] = 0
        /\ labels.hsl_label[1] = 0

\* t tenths is a nearest number of tenths to n / d
NearestTenth(t, n, d) == 2 * Abs(t * d - 10 * n) <= d

MaxChannel == Max2(color.r, Max2(color.g, color.b))

\* C9: update_labels never divides by zero; black gives CMYK (0, 0, 0, 100),
\* white (0, 0, 0, 0); for any other colour k is 100 (1 - max/255) and c, m, y
\* are 100 (max - x) / max, to the tenth shown; all four lie in [0, 100].
C9_CmykNoZeroDivision ==
    pc = "main" =>
        /\ exc = ""
        /\ \A i \in 1..4 : labels.cmyk_label[i] \in 0..1000
        /\ MaxChannel = 0 => labels.cmyk_label = <<0, 0, 0, 1000>>
        /\ <<color.r, color.g, color.b>> = <<255, 255, 255>> =>
               labels.cmyk_label = <<0, 0, 0, 0>>
        /\ MaxChannel > 0 =>
               /\ NearestTenth(labels.cmyk_label[1], 100 * (MaxChannel - color.r), MaxChannel)
               /\ NearestTenth(labels.cmyk_label[2], 100 * (MaxChannel - color.g), MaxChannel)
               /\ NearestTenth(labels.cmyk_label[3], 100 * (MaxChannel - color.b), MaxChannel)
               /\ NearestTenth(labels.cmyk_label[4], 100 * (255 - MaxChannel), 255)

C9_Witness ==
    /\ pc = "main"
    /\ <<color.r, color.g, color.b>> = <<0, 0, 0>>
    /\ labels.cmyk_label = <<0, 0, 0, 1000>>
    /\ exc = ""

\* a | b, bit by bit
RECURSIVE BitOr(_, _)
BitOr(a, b) ==
    IF a = 0 /\ b = 0 THEN 0
    ELSE (IF a % 2 = 1 \/ b % 2 = 1 THEN 1 ELSE 0) + 2 * BitOr(a \div 2, b \div 2)

\* C10: the decimal shown is r*65536 + g*256 + b, the same as
\* (r << 16) | (g << 8) | b, whatever the alpha, within [0, 16777215];
\* (255,0,0) gives 16711680, (0,255,0) 65280 and (0,0,255) 255.
C10_DecimalPacked ==
    pc = "main" =>
        /\ labels.decimal_label = color.r * 65536 + color.g * 256 + color.b
        /\ labels.decimal_label = BitOr(BitOr(color.r * 65536, color.g * 256), color.b)
        /\ labels.decimal_label \in 0..16777215
        /\ <<color.r, color.g, color.b>> = <<255, 0, 0>> => labels.decimal_label = 16711680
        /\ <<color.r, color.g, color.b>> = <<0, 255, 0>> => labels.decimal_label = 65280
        /\ <<color.r, color.g, color.b>> = <<0, 0, 255>> => labels.decimal_label = 255

C10_Witness ==
    /\ pc = "main"
    /\ color = QColor(255, 0, 0, 128)
    /\ labels.decimal_label = 16711680

====
